---- MODULE Spec2Model ----
(***************************************************************************)
(* Book Geometry & Specification Engine of the book template editor.       *)
(*                                                                         *)
(* Lengths are JavaScript numbers in inches.  They are modelled as exact   *)
(* rationals, written as integer multiples of 1/Unit inch, where Unit is   *)
(* a common denominator of every literal of the source (thousandths of an  *)
(* inch) and of the divisor 444 of the paperback rule.  IEEE-754 rounding  *)
(* is not modelled.                                                        *)
(*                                                                         *)
(* React state: a handler reads the state of the render it was created in; *)
(* the setX calls it makes take effect after it returns.  In an action,    *)
(* unprimed variables are therefore what the handler's closure reads and   *)
(* primed variables are what its setX calls leave behind.                  *)
(***************************************************************************)
EXTENDS Integers, Sequences, FiniteSets, TLC

VARIABLES
    selectedFormat,   \* Controls: useState('usTrade')
    pageCount,        \* Controls: useState(60)
    isSpread,         \* Controls: useState(false)
    bindingType,      \* Controls: useState('paperback')
    customWidth,      \* Controls: useState(0)
    customHeight,     \* Controls: useState(0)
    useCustomSize,    \* Controls: useState(false)
    bookFormat,       \* App: useState(BOOK_FORMATS.usTrade)
    emitted,          \* formats handed to onFormatChange by the last Controls event
    event,            \* the last Controls event and its input
    thrown,           \* the exception the last Controls event handler threw, or "none"
    catalog,          \* the BOOK_FORMATS object (its entries are mutable objects)
    formatRef,        \* id of the catalog entry bookFormat is the same object as, or "none"
    drawn,            \* CanvasEditor: the objects of its fabric canvas, in getObjects() order
    showBleed,        \* Controls: useState(true)
    showGutter,       \* Controls: useState(true)
    showSafety,       \* Controls: useState(true)
    previewMode,      \* Controls: useState(false)
    appShowBleed,     \* App: showBleed, useState(true), the showBleed prop of CanvasEditor
    appShowGutter,    \* App: showGutter, useState(true), the showGutter prop of CanvasEditor
    appShowSafety,    \* App: showSafety, useState(true), the showSafety prop of CanvasEditor
    showGrid,         \* CanvasEditor: useState(true)
    showRulers,       \* CanvasEditor: useState(true)
    gridSize,         \* CanvasEditor: useState(0.5)
    template,         \* App: useState<Template | null>(null), after the template effect
    jsonOutput,       \* ExportPanel: useState('{}'), after the JSON preview effect
    templateName,     \* ExportPanel: useState('My Book Template')
    downloads,        \* the documents the last click on Export JSON downloaded
    objects,          \* App: objects of the fabric canvas handed to ImageUploader and ExportPanel
    nextOid,          \* number of the next object created on the App canvas
    activeObject,     \* App canvas: position in objects of the active object, or 0
    elements,         \* App: useState<TemplateElement[]>([])
    now,              \* Date.now()
    placeholderName,  \* ImageUploader: useState('')
    isPlaceholder,    \* ImageUploader: useState(false)
    pending,          \* ImageUploader: image loads started and not yet called back
    arg,              \* page count given to a specification rule
    result            \* the rule last evaluated on arg, and its value

elementVars == <<objects, nextOid, activeObject, elements, now, placeholderName,
                 isPlaceholder, pending>>

controlsVars == <<selectedFormat, pageCount, isSpread, bindingType, customWidth,
                  customHeight, useCustomSize, bookFormat, emitted, event,
                  thrown, catalog, formatRef, drawn>>

guideVars == <<showBleed, showGutter, showSafety, previewMode, appShowBleed,
               appShowGutter, appShowSafety, showGrid, showRulers, gridSize>>

exportVars == <<template, jsonOutput, templateName, downloads>>

vars == <<controlsVars, elementVars, guideVars, exportVars, arg, result>>

-----------------------------------------------------------------------------
(* Bounds *)

MaxPageCount == 700

NegPages == 3

\* objects ever created on the App canvas
MaxObjects == 2

\* last value of the millisecond clock
MaxClock == 1

\* image loads in flight
MaxPending == 1

-----------------------------------------------------------------------------
(* Units *)

\* 1 inch; 111000 is divisible by 1000 and by 444
Unit == 444 * 250

\* a literal of the source given in thousandths of an inch: 0.125 is Th(125)
Th(thousandths) == thousandths * (Unit \div 1000)

\* obj.key = value on a JavaScript object (the key is added when absent)
assign(obj, key, value) ==
    [k \in (DOMAIN obj) \cup {key} |-> IF k = key THEN value ELSE obj[k]]

-----------------------------------------------------------------------------
(* lib/types.ts *)

BOOK_FORMATS ==
    [ pocketbook |->
        [id |-> "pocketbook", name |-> "Pocketbook",
         noBleed |-> [width |-> Th(4250), height |-> Th(6875)],
         withBleed |-> [width |-> Th(4500), height |-> Th(7125)],
         isSpread |-> FALSE, gutterWidth |-> 0],
      digest |->
        [id |-> "digest", name |-> "Digest",
         noBleed |-> [width |-> Th(5500), height |-> Th(8500)],
         withBleed |-> [width |-> Th(5750), height |-> Th(8750)],
         isSpread |-> FALSE, gutterWidth |-> 0],
      a5 |->
        [id |-> "a5", name |-> "A5",
         noBleed |-> [width |-> Th(5830), height |-> Th(8270)],
         withBleed |-> [width |-> Th(6080), height |-> Th(8520)],
         isSpread |-> FALSE, gutterWidth |-> 0],
      royal |->
        [id |-> "royal", name |-> "Royal",
         noBleed |-> [width |-> Th(6140), height |-> Th(9210)],
         withBleed |-> [width |-> Th(6390), height |-> Th(9460)],
         isSpread |-> FALSE, gutterWidth |-> 0],
      usTrade |->
        [id |-> "usTrade", name |-> "US Trade",
         noBleed |-> [width |-> Th(6000), height |-> Th(9000)],
         withBleed |-> [width |-> Th(6250), height |-> Th(9250)],
         isSpread |-> FALSE, gutterWidth |-> 0],
      comicBook |->
        [id |-> "comicBook", name |-> "Comic Book",
         noBleed |-> [width |-> Th(6630), height |-> Th(10250)],
         withBleed |-> [width |-> Th(6880), height |-> Th(10500)],
         isSpread |-> FALSE, gutterWidth |-> 0],
      pocketbookSpread |->
        [id |-> "pocketbookSpread", name |-> "Pocketbook Cover",
         noBleed |-> [width |-> Th(8500), height |-> Th(6875)],
         withBleed |-> [width |-> Th(9000), height |-> Th(7125)],
         isSpread |-> TRUE, gutterWidth |-> Th(125), spineWidth |-> 0],
      digestSpread |->
        [id |-> "digestSpread", name |-> "Digest Cover",
         noBleed |-> [width |-> Th(11000), height |-> Th(8500)],
         withBleed |-> [width |-> Th(11500), height |-> Th(8750)],
         isSpread |-> TRUE, gutterWidth |-> Th(125), spineWidth |-> 0] ]

FormatIds == DOMAIN BOOK_FORMATS

getGutterWidth_strictAt60(pc) ==
    IF pc <= 60 THEN 0
    ELSE IF pc <= 150 THEN Th(125)
    ELSE IF pc <= 400 THEN Th(500)
    ELSE IF pc <= 600 THEN Th(625)
    ELSE Th(750)

\* the rule with the fourth test written pageCount < 600
getGutterWidth_strictAt600(pc) ==
    IF pc < 60 THEN 0
    ELSE IF pc <= 150 THEN Th(125)
    ELSE IF pc <= 400 THEN Th(500)
    ELSE IF pc < 600 THEN Th(625)
    ELSE Th(750)

getGutterWidth(pc) ==
    IF pc < 60 THEN 0
    ELSE IF pc <= 150 THEN Th(125)
    ELSE IF pc <= 400 THEN Th(500)
    ELSE IF pc <= 600 THEN Th(625)
    ELSE Th(750)

calculatePaperbackSpineWidth_clamped(pc) ==
    IF pc < 24 THEN Th(60) ELSE ((pc * Unit) \div 444) + Th(60)

calculatePaperbackSpineWidth(pc) ==
    ((pc * Unit) \div 444) + Th(60)

\* the rule with the first test written pageCount <= 24
calculateHardcoverSpineWidth_incl24(pc) ==
    IF pc <= 24 THEN 0
    ELSE IF pc <= 84 THEN Th(250)
    ELSE IF pc <= 140 THEN Th(500)
    ELSE IF pc <= 168 THEN Th(625)
    ELSE IF pc <= 194 THEN Th(688)
    ELSE IF pc <= 222 THEN Th(750)
    ELSE IF pc <= 250 THEN Th(813)
    ELSE IF pc <= 278 THEN Th(875)
    ELSE IF pc <= 306 THEN Th(938)
    ELSE IF pc <= 334 THEN Th(1000)
    ELSE IF pc <= 360 THEN Th(1063)
    ELSE IF pc <= 388 THEN Th(1125)
    ELSE IF pc <= 416 THEN Th(1188)
    ELSE IF pc <= 444 THEN Th(1250)
    ELSE IF pc <= 472 THEN Th(1313)
    ELSE IF pc <= 500 THEN Th(1375)
    ELSE IF pc <= 528 THEN Th(1438)
    ELSE IF pc <= 556 THEN Th(1500)
    ELSE IF pc <= 582 THEN Th(1563)
    ELSE Th(1625)

\* the rule with the last bracket dropped
calculateHardcoverSpineWidth_short(pc) ==
    IF pc < 24 THEN 0
    ELSE IF pc <= 84 THEN Th(250)
    ELSE IF pc <= 140 THEN Th(500)
    ELSE IF pc <= 168 THEN Th(625)
    ELSE IF pc <= 194 THEN Th(688)
    ELSE IF pc <= 222 THEN Th(750)
    ELSE IF pc <= 250 THEN Th(813)
    ELSE IF pc <= 278 THEN Th(875)
    ELSE IF pc <= 306 THEN Th(938)
    ELSE IF pc <= 334 THEN Th(1000)
    ELSE IF pc <= 360 THEN Th(1063)
    ELSE IF pc <= 388 THEN Th(1125)
    ELSE IF pc <= 416 THEN Th(1188)
    ELSE IF pc <= 444 THEN Th(1250)
    ELSE IF pc <= 472 THEN Th(1313)
    ELSE IF pc <= 500 THEN Th(1375)
    ELSE IF pc <= 528 THEN Th(1438)
    ELSE IF pc <= 556 THEN Th(1500)
    ELSE Th(1563)

\* the rule with the values of two neighbouring brackets exchanged
calculateHardcoverSpineWidth_swapped(pc) ==
    IF pc < 24 THEN 0
    ELSE IF pc <= 84 THEN Th(250)
    ELSE IF pc <= 140 THEN Th(500)
    ELSE IF pc <= 168 THEN Th(625)
    ELSE IF pc <= 194 THEN Th(688)
    ELSE IF pc <= 222 THEN Th(813)
    ELSE IF pc <= 250 THEN Th(750)
    ELSE IF pc <= 278 THEN Th(875)
    ELSE IF pc <= 306 THEN Th(938)
    ELSE IF pc <= 334 THEN Th(1000)
    ELSE IF pc <= 360 THEN Th(1063)
    ELSE IF pc <= 388 THEN Th(1125)
    ELSE IF pc <= 416 THEN Th(1188)
    ELSE IF pc <= 444 THEN Th(1250)
    ELSE IF pc <= 472 THEN Th(1313)
    ELSE IF pc <= 500 THEN Th(1375)
    ELSE IF pc <= 528 THEN Th(1438)
    ELSE IF pc <= 556 THEN Th(1500)
    ELSE IF pc <= 582 THEN Th(1563)
    ELSE Th(1625)

calculateHardcoverSpineWidth(pc) ==
    IF pc < 24 THEN 0
    ELSE IF pc <= 84 THEN Th(250)
    ELSE IF pc <= 140 THEN Th(500)
    ELSE IF pc <= 168 THEN Th(625)
    ELSE IF pc <= 194 THEN Th(688)
    ELSE IF pc <= 222 THEN Th(750)
    ELSE IF pc <= 250 THEN Th(813)
    ELSE IF pc <= 278 THEN Th(875)
    ELSE IF pc <= 306 THEN Th(938)
    ELSE IF pc <= 334 THEN Th(1000)
    ELSE IF pc <= 360 THEN Th(1063)
    ELSE IF pc <= 388 THEN Th(1125)
    ELSE IF pc <= 416 THEN Th(1188)
    ELSE IF pc <= 444 THEN Th(1250)
    ELSE IF pc <= 472 THEN Th(1313)
    ELSE IF pc <= 500 THEN Th(1375)
    ELSE IF pc <= 528 THEN Th(1438)
    ELSE IF pc <= 556 THEN Th(1500)
    ELSE IF pc <= 582 THEN Th(1563)
    ELSE Th(1625)

-----------------------------------------------------------------------------
(* components/Canvas/CanvasEditor.tsx *)

\* Lengths on the canvas are pixels; a pixel length is written as an integer
\* multiple of 1/Unit pixel (inches in 1/Unit inch, times the dots per inch).

\* const dpi = 72 of the format effect
dpi == 72

\* the trim rectangle drawBleedMargins adds to the canvas
drawBleedMargins(format, d) ==
    LET bleed == Th(125) * d
        width == format.withBleed.width * d
        height == format.withBleed.height * d
    IN  [type |-> "guideline", name |-> "trim",
         left |-> bleed, top |-> bleed,
         width |-> width - (2 * bleed), height |-> height - (2 * bleed)]

\* the safety rectangle drawSafetyMargins adds to the canvas
drawSafetyMargins(format, d) ==
    LET bleed == Th(125) * d
        safety == Th(250) * d
        width == format.withBleed.width * d
        height == format.withBleed.height * d
    IN  [type |-> "guideline", name |-> "safety",
         left |-> bleed + safety, top |-> bleed + safety,
         width |-> width - (2 * (bleed + safety)),
         height |-> height - (2 * (bleed + safety))]

\* drawGutterArea with the band's left edge half a band too far left
drawGutterArea_uncentred(format, d) ==
    IF ~format.isSpread THEN << >>
    ELSE
    LET width == format.withBleed.width * d
        height == format.withBleed.height * d
        centerLine == [type |-> "guideline", name |-> "gutter",
                       x1 |-> width \div 2, y1 |-> 0,
                       x2 |-> width \div 2, y2 |-> height]
        gutterWidth == format.gutterWidth * d
        gutterRect == [type |-> "guideline", name |-> "gutterArea",
                       left |-> (width \div 2) - gutterWidth, top |-> 0,
                       width |-> gutterWidth, height |-> height]
        hasSpine == "spineWidth" \in DOMAIN format /\ format.spineWidth > 0
        spineWidth == format.spineWidth * d
        spineRect == [type |-> "guideline", name |-> "spine",
                      left |-> (width \div 2) - (spineWidth \div 2), top |-> 0,
                      width |-> spineWidth, height |-> height]
    IN  (IF gutterWidth > 0 THEN <<gutterRect>> ELSE << >>)
        \o (IF hasSpine THEN <<spineRect>> ELSE << >>)
        \o <<centerLine>>

\* drawGutterArea with the spine band nested in the test gutterWidth > 0
drawGutterArea_spineInGutter(format, d) ==
    IF ~format.isSpread THEN << >>
    ELSE
    LET width == format.withBleed.width * d
        height == format.withBleed.height * d
        centerLine == [type |-> "guideline", name |-> "gutter",
                       x1 |-> width \div 2, y1 |-> 0,
                       x2 |-> width \div 2, y2 |-> height]
        gutterWidth == format.gutterWidth * d
        gutterRect == [type |-> "guideline", name |-> "gutterArea",
                       left |-> (width \div 2) - (gutterWidth \div 2), top |-> 0,
                       width |-> gutterWidth, height |-> height]
        hasSpine == "spineWidth" \in DOMAIN format /\ format.spineWidth > 0
        spineWidth == format.spineWidth * d
        spineRect == [type |-> "guideline", name |-> "spine",
                      left |-> (width \div 2) - (spineWidth \div 2), top |-> 0,
                      width |-> spineWidth, height |-> height]
    IN  (IF gutterWidth > 0
         THEN <<gutterRect>> \o (IF hasSpine THEN <<spineRect>> ELSE << >>)
         ELSE << >>)
        \o <<centerLine>>

\* the objects drawGutterArea adds to the canvas, in order: the gutter band
\* when gutterWidth x dpi > 0, the spine band when spineWidth is defined
\* and > 0, then the centre line; nothing for a format that is no spread
\* (withBleed.width x d and the band widths are even multiples of 1/Unit pixel
\* for the even d of the effect, so the halves are exact)
drawGutterArea(format, d) ==
    IF ~format.isSpread THEN << >>
    ELSE
    LET width == format.withBleed.width * d
        height == format.withBleed.height * d
        centerLine == [type |-> "guideline", name |-> "gutter",
                       x1 |-> width \div 2, y1 |-> 0,
                       x2 |-> width \div 2, y2 |-> height]
        gutterWidth == format.gutterWidth * d
        gutterRect == [type |-> "guideline", name |-> "gutterArea",
                       left |-> (width \div 2) - (gutterWidth \div 2), top |-> 0,
                       width |-> gutterWidth, height |-> height]
        hasSpine == "spineWidth" \in DOMAIN format /\ format.spineWidth > 0
        spineWidth == format.spineWidth * d
        spineRect == [type |-> "guideline", name |-> "spine",
                      left |-> (width \div 2) - (spineWidth \div 2), top |-> 0,
                      width |-> spineWidth, height |-> height]
    IN  (IF gutterWidth > 0 THEN <<gutterRect>> ELSE << >>)
        \o (IF hasSpine THEN <<spineRect>> ELSE << >>)
        \o <<centerLine>>

\* the lines drawGrid adds: the lines of one loop (i = 0, gridSpacing, ...
\* while i <= width, resp. height) are written as one record holding their
\* number, spacing and length
drawGrid(width, height, d, size) ==
    LET gridSpacing == size * d
    IN  << [type |-> "grid", name |-> "vertical",
            count |-> (width \div gridSpacing) + 1,
            spacing |-> gridSpacing, length |-> height],
           [type |-> "grid", name |-> "horizontal",
            count |-> (height \div gridSpacing) + 1,
            spacing |-> gridSpacing, length |-> width] >>

\* the objects drawRulers adds: the two ruler rectangles, then the ticks and
\* inch labels of each ruler (one tick per quarter inch, one label per inch),
\* the ticks and labels of one loop written as one record holding their numbers
drawRulers(width, height, d) ==
    LET rulerWidth == 20 * Unit
        majorTickSpacing == Unit * d
        minorTickSpacing == Th(250) * d
    IN  << [type |-> "guideline", name |-> "hRuler",
            left |-> 0, top |-> 0, width |-> width, height |-> rulerWidth],
           [type |-> "guideline", name |-> "vRuler",
            left |-> 0, top |-> 0, width |-> rulerWidth, height |-> height],
           [type |-> "guideline", name |-> "hTick",
            count |-> (width \div minorTickSpacing) + 1,
            labels |-> (width \div majorTickSpacing) + 1],
           [type |-> "guideline", name |-> "vTick",
            count |-> (height \div minorTickSpacing) + 1,
            labels |-> (height \div majorTickSpacing) + 1] >>

\* the clearing loop with only the objects tagged guideline removed
clearGuidelines_keepsGrid(objs) ==
    SelectSeq(objs, LAMBDA obj : obj.type # "guideline")

\* canvas.getObjects().forEach(obj => { if (guideline or grid) canvas.remove(obj) }):
\* getObjects() hands out a copy of the canvas's object array, so every object
\* is visited
clearGuidelines(objs) ==
    SelectSeq(objs, LAMBDA obj : obj.type \notin {"guideline", "grid"})

\* One run of the format effect on a canvas holding objs: what the canvas
\* holds afterwards.  props are bookFormat's companions among the effect's
\* dependencies: showBleed, showSafety, showGutter, showGrid, showRulers, gridSize.
formatEffect(objs, format, props) ==
    LET width == format.withBleed.width * dpi
        height == format.withBleed.height * dpi
    IN  clearGuidelines(objs)
        \o (IF props.showBleed THEN <<drawBleedMargins(format, dpi)>> ELSE << >>)
        \o (IF props.showSafety THEN <<drawSafetyMargins(format, dpi)>> ELSE << >>)
        \o (IF props.showGutter THEN drawGutterArea(format, dpi) ELSE << >>)
        \o (IF props.showGrid THEN drawGrid(width, height, dpi, props.gridSize) ELSE << >>)
        \o (IF props.showRulers THEN drawRulers(width, height, dpi) ELSE << >>)

\* the dependencies of the format effect other than bookFormat, as rendered
canvasProps ==
    [showBleed |-> appShowBleed, showSafety |-> appShowSafety,
     showGutter |-> appShowGutter, showGrid |-> showGrid,
     showRulers |-> showRulers, gridSize |-> gridSize]

\* the props and state CanvasEditor is mounted with
initialProps ==
    [showBleed |-> TRUE, showSafety |-> TRUE, showGutter |-> TRUE,
     showGrid |-> TRUE, showRulers |-> TRUE, gridSize |-> Th(500)]

-----------------------------------------------------------------------------
(* Inputs *)

\* page counts given to the specification rules
RulePageCounts == ((0 - NegPages) .. MaxPageCount) \cup {10000}

\* parseInt(e.target.value) || 0 of the page count input
PageCountChoices == {0, 151, MaxPageCount}

\* parseFloat(e.target.value) || 0 of a custom size input
CustomSizeChoices == {0, Th(5000), Th(8000)}

BindingTypes == {"paperback", "hardcover"}

\* values of a change event of the format <select> that are no key of the catalog
UnknownFormatIds == {"doesNotExist"}

-----------------------------------------------------------------------------
(* State after construction *)

InitControls ==
    /\ selectedFormat = "usTrade"
    /\ pageCount = 60
    /\ isSpread = FALSE
    /\ bindingType = "paperback"
    /\ customWidth = 0
    /\ customHeight = 0
    /\ useCustomSize = FALSE
    /\ bookFormat = BOOK_FORMATS.usTrade
    /\ emitted = << >>
    /\ event = [name |-> "init"]
    /\ thrown = "none"
    /\ catalog = BOOK_FORMATS
    /\ formatRef = "usTrade"
    /\ drawn = formatEffect(<< >>, BOOK_FORMATS.usTrade, initialProps)

InitElements ==
    /\ objects = << >>
    /\ nextOid = 1
    /\ activeObject = 0
    /\ elements = << >>
    /\ now = 0
    /\ placeholderName = ""
    /\ isPlaceholder = FALSE
    /\ pending = << >>

InitGuides ==
    /\ showBleed = TRUE
    /\ showGutter = TRUE
    /\ showSafety = TRUE
    /\ previewMode = FALSE
    /\ appShowBleed = TRUE
    /\ appShowGutter = TRUE
    /\ appShowSafety = TRUE
    /\ showGrid = TRUE
    /\ showRulers = TRUE
    /\ gridSize = Th(500)

InitExport ==
    /\ template = [id |-> "template-1", name |-> "Book Template",
                   format |-> BOOK_FORMATS.usTrade, elements |-> << >>]
    /\ templateName = "My Book Template"
    /\ jsonOutput = [json |-> [id |-> "template-1", name |-> "My Book Template",
                               format |-> BOOK_FORMATS.usTrade, elements |-> << >>]]
    /\ downloads = << >>

Init ==
    /\ InitControls
    /\ InitElements
    /\ InitGuides
    /\ InitExport
    /\ arg = 0
    /\ result = [fn |-> "none"]

InitRules ==
    /\ InitControls
    /\ InitElements
    /\ InitGuides
    /\ InitExport
    /\ arg \in RulePageCounts
    /\ result = [fn |-> "none"]

-----------------------------------------------------------------------------
(* Evaluation of the specification rules *)

EvalGutterWidth ==
    /\ result' = [fn |-> "getGutterWidth", val |-> getGutterWidth(arg)]
    /\ UNCHANGED <<controlsVars, elementVars, guideVars, exportVars, arg>>

EvalPaperbackSpineWidth ==
    /\ result' = [fn |-> "calculatePaperbackSpineWidth",
                  val |-> calculatePaperbackSpineWidth(arg)]
    /\ UNCHANGED <<controlsVars, elementVars, guideVars, exportVars, arg>>

EvalHardcoverSpineWidth ==
    /\ result' = [fn |-> "calculateHardcoverSpineWidth",
                  val |-> calculateHardcoverSpineWidth(arg)]
    /\ UNCHANGED <<controlsVars, elementVars, guideVars, exportVars, arg>>

NextRules ==
    \/ EvalGutterWidth
    \/ EvalPaperbackSpineWidth
    \/ EvalHardcoverSpineWidth

SpecRules == InitRules /\ [][NextRules]_vars

-----------------------------------------------------------------------------
(* App template effect and components/Export/ExportPanel.tsx *)

\* names typed into the Template Name field
TemplateNames == {"My Book Template", "Cover"}

\* the object the template effect of App hands to setTemplate
TemplateOf(format, els) ==
    [id |-> "template-1", name |-> "Book Template",
     format |-> format, elements |-> els]

\* the function with elements.unshift(element) in place of elements.push(element)
getElementsFromCanvas_unshift(objs) ==
    LET kept == {i \in 1..Len(objs) :
                    /\ objs[i].type \notin {"guideline", "grid"}
                    /\ objs[i].hasData}
        rank(i) == Cardinality({j \in kept : j >= i})
    IN  [k \in 1..Cardinality(kept) |->
            LET i == CHOOSE i \in kept : rank(i) = k
            IN  [id |-> i - 1,
                 type |-> IF objs[i].isPlaceholder THEN "placeholder" ELSE "image",
                 name |-> IF objs[i].name # "" THEN objs[i].name
                          ELSE "Element " \o ToString(i - 1),
                 isPlaceholder |-> objs[i].isPlaceholder]]

\* ExportPanel.getElementsFromCanvas on a canvas holding objs: ids are
\* element-<index in getObjects()>; objects tagged guideline or grid and
\* objects without data are skipped (position, size and rotation of an
\* object are not part of the model)
getElementsFromCanvas(objs) ==
    LET kept == {i \in 1..Len(objs) :
                    /\ objs[i].type \notin {"guideline", "grid"}
                    /\ objs[i].hasData}
        rank(i) == Cardinality({j \in kept : j <= i})
    IN  [k \in 1..Cardinality(kept) |->
            LET i == CHOOSE i \in kept : rank(i) = k
            IN  [id |-> i - 1,
                 type |-> IF objs[i].isPlaceholder THEN "placeholder" ELSE "image",
                 name |-> IF objs[i].name # "" THEN objs[i].name
                          ELSE "Element " \o ToString(i - 1),
                 isPlaceholder |-> objs[i].isPlaceholder]]

\* { ...template, name: templateName, elements: getElementsFromCanvas() }
exportTemplate(tpl, name, objs) ==
    [tpl EXCEPT !.name = name, !.elements = getElementsFromCanvas(objs)]

\* JSON.stringify(value, null, 2): the text is written as the value it
\* denotes; no value of the model holds undefined, NaN or a function, which
\* are what JSON.stringify drops or rewrites
JSONstringify(value) == [json |-> value]

\* the JSON preview effect of ExportPanel
previewEffect(tpl, name, objs) == JSONstringify(exportTemplate(tpl, name, objs))

\* the template effect with elements missing from its dependencies
templateEffect_formatOnly(format, sameFormat, els, objs) ==
    IF sameFormat
    THEN UNCHANGED <<template, jsonOutput>>
    ELSE /\ template' = TemplateOf(format, els)
         /\ jsonOutput' = previewEffect(TemplateOf(format, els), templateName, objs)

\* App commits bookFormat = format and elements = els with the canvas holding
\* objs: the template effect runs when bookFormat or elements is another
\* object than before (sameFormat: setBookFormat was given the object it
\* already held), and the new template makes the JSON preview effect run
templateEffect(format, sameFormat, els, objs) ==
    IF sameFormat /\ els = elements
    THEN UNCHANGED <<template, jsonOutput>>
    ELSE /\ template' = TemplateOf(format, els)
         /\ jsonOutput' = previewEffect(TemplateOf(format, els), templateName, objs)

-----------------------------------------------------------------------------
(* components/Controls/Controls.tsx *)

\* the custom format literal, written out in updateFormat and repeated in
\* handlePageCountChange, handleToggleSpread, handleBindingTypeChange and
\* handleToggleCustomSize
customFormat_halfBleed(width, height, spread, count) ==
    [id |-> "custom", name |-> "Custom Size",
     noBleed |-> [width |-> width, height |-> height],
     withBleed |-> [width |-> width + Th(125), height |-> height + Th(250)],
     isSpread |-> spread,
     gutterWidth |-> getGutterWidth(count),
     pageCount |-> count]

customFormat(width, height, spread, count) ==
    [id |-> "custom", name |-> "Custom Size",
     noBleed |-> [width |-> width, height |-> height],
     withBleed |-> [width |-> width + Th(250), height |-> height + Th(250)],
     isSpread |-> spread,
     gutterWidth |-> getGutterWidth(count),
     pageCount |-> count]

\* the binding rules exchanged
spineWidthFor_exchanged(type, count) ==
    IF type = "paperback" THEN calculateHardcoverSpineWidth(count)
    ELSE calculatePaperbackSpineWidth(count)

\* bindingType === 'paperback' ? calculatePaperbackSpineWidth(pageCount)
\*                             : calculateHardcoverSpineWidth(pageCount)
spineWidthFor(type, count) ==
    IF type = "paperback" THEN calculatePaperbackSpineWidth(count)
    ELSE calculateHardcoverSpineWidth(count)

\* the suffix added only to an id that does not end with it yet
spreadIdOf_keepsSuffix(id) ==
    IF \E b \in FormatIds : id = b \o "Spread" THEN id ELSE id \o "Spread"

\* `${selectedFormat}Spread`
spreadIdOf(id) == id \o "Spread"

\* selectedFormat.replace('Spread', ''): the first occurrence is removed; in
\* every id the catalog can hold, 'Spread' occurs at most once, as a suffix
withoutSpread(id) ==
    IF \E b \in FormatIds : id = spreadIdOf(b)
    THEN CHOOSE b \in FormatIds : id = spreadIdOf(b)
    ELSE id

\* App.handleFormatChange, reached through the onFormatChange prop
\* (format is a fresh object; the effect of CanvasEditor on bookFormat runs with
\* the commit of the new state)
onFormatChange(format) ==
    /\ bookFormat' = format
    /\ formatRef' = "none"
    /\ emitted' = <<format>>
    /\ drawn' = formatEffect(drawn, format, canvasProps)
    /\ templateEffect(format, FALSE, elements, objects)
    /\ thrown' = "none"

\* onFormatChange(BOOK_FORMATS[id]): the catalog entry itself is handed over
\* (when App already holds that object, nothing is rendered and no effect runs)
onFormatChangeEntry(id) ==
    /\ bookFormat' = catalog[id]
    /\ formatRef' = id
    /\ emitted' = <<catalog[id]>>
    /\ drawn' = IF formatRef = id THEN drawn
                ELSE formatEffect(drawn, catalog[id], canvasProps)
    /\ templateEffect(catalog[id], formatRef = id, elements, objects)
    /\ thrown' = "none"

\* a handler returns without calling onFormatChange
noFormatChange ==
    /\ emitted' = << >>
    /\ thrown' = "none"
    /\ UNCHANGED <<bookFormat, formatRef, drawn, template, jsonOutput>>

\* BOOK_FORMATS[formatId] is undefined and a property of it is read: the
\* handler ends with a TypeError; the setX calls made before it stay queued
throwTypeError ==
    /\ emitted' = << >>
    /\ thrown' = "TypeError"
    /\ UNCHANGED <<bookFormat, formatRef, drawn, template, jsonOutput>>

\* the format updateFormat hands to onFormatChange, from the closure's state
updateFormat ==
    LET start == IF useCustomSize
                 THEN customFormat(customWidth, customHeight, isSpread, pageCount)
                 ELSE catalog[selectedFormat]
        sized == assign(assign(start, "gutterWidth", getGutterWidth(pageCount)),
                        "pageCount", pageCount)
    IN  IF sized.isSpread
        THEN assign(sized, "spineWidth", spineWidthFor(bindingType, pageCount))
        ELSE sized

\* the handler working on the catalog entry itself instead of a copy of it
handleFormatChange_noCopy(formatId) ==
    /\ selectedFormat' = formatId
    /\ useCustomSize' = FALSE
    /\ event' = [name |-> "handleFormatChange", value |-> formatId]
    /\ IF formatId \notin DOMAIN catalog
       THEN /\ throwTypeError
            /\ UNCHANGED <<isSpread, catalog>>
       ELSE LET guttered == assign(catalog[formatId], "gutterWidth",
                                   getGutterWidth(pageCount))
                format == IF guttered.isSpread
                          THEN assign(assign(guttered, "pageCount", pageCount),
                                      "spineWidth",
                                      spineWidthFor(bindingType, pageCount))
                          ELSE guttered
            IN  /\ isSpread' = catalog[formatId].isSpread
                /\ catalog' = [catalog EXCEPT ![formatId] = format]
                /\ bookFormat' = format
                /\ formatRef' = formatId
                /\ emitted' = <<format>>
                /\ drawn' = formatEffect(drawn, format, canvasProps)
                /\ templateEffect(format, FALSE, elements, objects)
                /\ thrown' = "none"
    /\ UNCHANGED <<pageCount, bindingType, customWidth, customHeight, arg, result,
                   elementVars, guideVars, templateName, downloads>>

\* the handler falling back to a default entry for an id the catalog lacks
handleFormatChange_fallback(formatId) ==
    /\ selectedFormat' = formatId
    /\ useCustomSize' = FALSE
    /\ event' = [name |-> "handleFormatChange", value |-> formatId]
    /\ LET entry == IF formatId \in DOMAIN catalog THEN catalog[formatId]
                    ELSE catalog["usTrade"]
           guttered == assign(entry, "gutterWidth", getGutterWidth(pageCount))
           format == IF guttered.isSpread
                     THEN assign(assign(guttered, "pageCount", pageCount),
                                 "spineWidth",
                                 spineWidthFor(bindingType, pageCount))
                     ELSE guttered
       IN  /\ isSpread' = entry.isSpread
           /\ onFormatChange(format)
    /\ UNCHANGED <<pageCount, bindingType, customWidth, customHeight, arg, result,
                   catalog, elementVars,
                   guideVars, templateName, downloads>>

handleFormatChange(formatId) ==
    /\ selectedFormat' = formatId
    /\ useCustomSize' = FALSE
    /\ event' = [name |-> "handleFormatChange", value |-> formatId]
    /\ IF formatId \notin DOMAIN catalog
       THEN \* BOOK_FORMATS[formatId].isSpread on undefined
            /\ throwTypeError
            /\ UNCHANGED isSpread
       ELSE LET copy == catalog[formatId]
                guttered == assign(copy, "gutterWidth", getGutterWidth(pageCount))
                format == IF guttered.isSpread
                          THEN assign(assign(guttered, "pageCount", pageCount),
                                      "spineWidth",
                                      spineWidthFor(bindingType, pageCount))
                          ELSE guttered
            IN  /\ isSpread' = catalog[formatId].isSpread
                /\ onFormatChange(format)
    /\ UNCHANGED <<pageCount, bindingType, customWidth, customHeight, arg, result,
                   catalog, elementVars,
                   guideVars, templateName, downloads>>

handlePageCountChange(count) ==
    LET start == IF useCustomSize
                 THEN customFormat(customWidth, customHeight, isSpread, count)
                 ELSE catalog[selectedFormat]
        sized == assign(assign(start, "gutterWidth", getGutterWidth(count)),
                        "pageCount", count)
        format == IF sized.isSpread
                  THEN assign(sized, "spineWidth", spineWidthFor(bindingType, count))
                  ELSE sized
    IN  /\ pageCount' = count
        /\ onFormatChange(format)
        /\ event' = [name |-> "handlePageCountChange", value |-> count]
        /\ UNCHANGED <<selectedFormat, isSpread, bindingType, customWidth,
                       customHeight, useCustomSize, arg, result, catalog, elementVars,
                   guideVars, templateName, downloads>>

handleToggleSpread(isSpreadValue) ==
    /\ isSpread' = isSpreadValue
    /\ event' = [name |-> "handleToggleSpread", value |-> isSpreadValue]
    /\ IF useCustomSize
       THEN LET start == customFormat(customWidth, customHeight, isSpreadValue, pageCount)
                format == IF isSpreadValue
                          THEN assign(start, "spineWidth",
                                      spineWidthFor(bindingType, pageCount))
                          ELSE start
            IN  /\ onFormatChange(format)
                /\ UNCHANGED selectedFormat
       ELSE IF isSpreadValue
       THEN LET spreadFormatId == spreadIdOf(selectedFormat)
            IN  IF spreadFormatId \in FormatIds
                THEN /\ selectedFormat' = spreadFormatId
                     /\ onFormatChange(
                          assign(assign(assign(catalog[spreadFormatId],
                              "gutterWidth", getGutterWidth(pageCount)),
                              "pageCount", pageCount),
                              "spineWidth", spineWidthFor(bindingType, pageCount)))
                ELSE /\ noFormatChange
                     /\ UNCHANGED selectedFormat
       ELSE LET singleFormatId == withoutSpread(selectedFormat)
            IN  IF singleFormatId \in FormatIds
                THEN /\ selectedFormat' = singleFormatId
                     /\ onFormatChangeEntry(singleFormatId)
                ELSE /\ noFormatChange
                     /\ UNCHANGED selectedFormat
    /\ UNCHANGED <<pageCount, bindingType, customWidth, customHeight,
                   useCustomSize, arg, result, catalog, elementVars,
                   guideVars, templateName, downloads>>

\* the handler reading the binding type of its closure instead of the new one
handleBindingTypeChange_stale(type) ==
    /\ bindingType' = type
    /\ event' = [name |-> "handleBindingTypeChange", value |-> type]
    /\ IF isSpread
       THEN LET start == IF useCustomSize
                         THEN customFormat(customWidth, customHeight, TRUE, pageCount)
                         ELSE catalog[selectedFormat]
            IN  onFormatChange(
                  assign(assign(start, "pageCount", pageCount),
                         "spineWidth", spineWidthFor(bindingType, pageCount)))
       ELSE noFormatChange
    /\ UNCHANGED <<selectedFormat, pageCount, isSpread, customWidth,
                   customHeight, useCustomSize, arg, result, catalog, elementVars,
                   guideVars, templateName, downloads>>

handleBindingTypeChange(type) ==
    /\ bindingType' = type
    /\ event' = [name |-> "handleBindingTypeChange", value |-> type]
    /\ IF isSpread
       THEN LET start == IF useCustomSize
                         THEN customFormat(customWidth, customHeight, TRUE, pageCount)
                         ELSE catalog[selectedFormat]
            IN  onFormatChange(
                  assign(assign(start, "pageCount", pageCount),
                         "spineWidth", spineWidthFor(type, pageCount)))
       ELSE noFormatChange
    /\ UNCHANGED <<selectedFormat, pageCount, isSpread, customWidth,
                   customHeight, useCustomSize, arg, result, catalog, elementVars,
                   guideVars, templateName, downloads>>

handleCustomWidthChange(width) ==
    /\ customWidth' = width
    /\ event' = [name |-> "handleCustomWidthChange", value |-> width]
    /\ IF useCustomSize THEN onFormatChange(updateFormat) ELSE noFormatChange
    /\ UNCHANGED <<selectedFormat, pageCount, isSpread, bindingType,
                   customHeight, useCustomSize, arg, result, catalog, elementVars,
                   guideVars, templateName, downloads>>

handleCustomHeightChange(height) ==
    /\ customHeight' = height
    /\ event' = [name |-> "handleCustomHeightChange", value |-> height]
    /\ IF useCustomSize THEN onFormatChange(updateFormat) ELSE noFormatChange
    /\ UNCHANGED <<selectedFormat, pageCount, isSpread, bindingType,
                   customWidth, useCustomSize, arg, result, catalog, elementVars,
                   guideVars, templateName, downloads>>

handleToggleCustomSize(useCustom) ==
    /\ useCustomSize' = useCustom
    /\ event' = [name |-> "handleToggleCustomSize", value |-> useCustom]
    /\ IF useCustom /\ customWidth = 0 /\ customHeight = 0
       THEN LET currentFormat == catalog[selectedFormat]
                start == customFormat(currentFormat.noBleed.width,
                                      currentFormat.noBleed.height,
                                      isSpread, pageCount)
                format == IF isSpread
                          THEN assign(start, "spineWidth",
                                      spineWidthFor(bindingType, pageCount))
                          ELSE start
            IN  /\ customWidth' = currentFormat.noBleed.width
                /\ customHeight' = currentFormat.noBleed.height
                /\ onFormatChange(format)
       ELSE IF ~useCustom
       THEN LET sized == assign(assign(catalog[selectedFormat],
                                       "gutterWidth", getGutterWidth(pageCount)),
                                "pageCount", pageCount)
                format == IF sized.isSpread
                          THEN assign(sized, "spineWidth",
                                      spineWidthFor(bindingType, pageCount))
                          ELSE sized
            IN  /\ onFormatChange(format)
                /\ UNCHANGED <<customWidth, customHeight>>
       ELSE /\ noFormatChange
            /\ UNCHANGED <<customWidth, customHeight>>
    /\ UNCHANGED <<selectedFormat, pageCount, isSpread, bindingType, arg, result, catalog, elementVars,
                   guideVars, templateName, downloads>>

\* the format <select> is disabled while custom size is on
formatSelectEnabled == ~useCustomSize

\* the Cover Spread checkbox is disabled unless custom size is on or the
\* selected format id includes 'Spread'
spreadCheckboxEnabled ==
    useCustomSize \/ (\E b \in FormatIds : selectedFormat = spreadIdOf(b))

\* Controls renders: its Format Information panel reads
\* BOOK_FORMATS[selectedFormat].noBleed unless custom size is on; on an id the
\* catalog lacks the render throws and the application is gone.
controlsRendered == useCustomSize \/ selectedFormat \in DOMAIN catalog

\* The user's events.  A <select> reports a change to another option; a
\* checkbox reports the negation of the value it shows.
\* (The last disjunct is a change event carrying an id no option offers: the
\* caller error of a catalog lookup.)
Next ==
    \/ \E formatId \in FormatIds :
          /\ controlsRendered
          /\ formatSelectEnabled
          /\ formatId # selectedFormat
          /\ handleFormatChange(formatId)
    \/ \E count \in PageCountChoices :
          /\ controlsRendered
          /\ handlePageCountChange(count)
    \/ (controlsRendered /\ spreadCheckboxEnabled /\ handleToggleSpread(~isSpread))
    \/ \E type \in BindingTypes :
          /\ controlsRendered
          /\ type # bindingType
          /\ handleBindingTypeChange(type)
    \/ \E width \in CustomSizeChoices :
          /\ controlsRendered
          /\ useCustomSize
          /\ handleCustomWidthChange(width)
    \/ \E height \in CustomSizeChoices :
          /\ controlsRendered
          /\ useCustomSize
          /\ handleCustomHeightChange(height)
    \/ (controlsRendered /\ handleToggleCustomSize(~useCustomSize))
    \/ \E formatId \in UnknownFormatIds :
          /\ controlsRendered
          /\ formatSelectEnabled
          /\ handleFormatChange(formatId)

Spec == Init /\ [][Next]_vars

-----------------------------------------------------------------------------
(* Guideline toggles: Controls, App and CanvasEditor *)

\* options of the grid size <select>
GridSizeChoices == {Th(500), Th(1000)}

\* format ids and page counts of the events on the guides
GuideFormatIds == {"usTrade", "pocketbookSpread"}

GuidePageCounts == {0, 151}

\* CanvasEditor is rendered with props: the format effect runs when one of its
\* dependencies differs from the last render
canvasEffect(props) ==
    drawn' = IF props = canvasProps THEN drawn
             ELSE formatEffect(drawn, bookFormat, props)

handleToggleBleed(checked) ==
    /\ showBleed' = checked
    /\ appShowBleed' = checked
    /\ canvasEffect([canvasProps EXCEPT !.showBleed = checked])
    /\ event' = [name |-> "handleToggleBleed", value |-> checked]
    /\ emitted' = << >>
    /\ thrown' = "none"
    /\ UNCHANGED <<selectedFormat, pageCount, isSpread, bindingType, customWidth,
                   customHeight, useCustomSize, bookFormat, catalog, formatRef,
                   showGutter, showSafety, previewMode, appShowGutter, appShowSafety,
                   showGrid, showRulers, gridSize, elementVars, exportVars, arg, result>>

handleToggleGutter(checked) ==
    /\ showGutter' = checked
    /\ appShowGutter' = checked
    /\ canvasEffect([canvasProps EXCEPT !.showGutter = checked])
    /\ event' = [name |-> "handleToggleGutter", value |-> checked]
    /\ emitted' = << >>
    /\ thrown' = "none"
    /\ UNCHANGED <<selectedFormat, pageCount, isSpread, bindingType, customWidth,
                   customHeight, useCustomSize, bookFormat, catalog, formatRef,
                   showBleed, showSafety, previewMode, appShowBleed, appShowSafety,
                   showGrid, showRulers, gridSize, elementVars, exportVars, arg, result>>

handleToggleSafety(checked) ==
    /\ showSafety' = checked
    /\ appShowSafety' = checked
    /\ canvasEffect([canvasProps EXCEPT !.showSafety = checked])
    /\ event' = [name |-> "handleToggleSafety", value |-> checked]
    /\ emitted' = << >>
    /\ thrown' = "none"
    /\ UNCHANGED <<selectedFormat, pageCount, isSpread, bindingType, customWidth,
                   customHeight, useCustomSize, bookFormat, catalog, formatRef,
                   showBleed, showGutter, previewMode, appShowBleed, appShowGutter,
                   showGrid, showRulers, gridSize, elementVars, exportVars, arg, result>>

\* the handler switching every guideline back on when preview mode ends
handleTogglePreviewMode_allOn(checked) ==
    /\ previewMode' = checked
    /\ appShowBleed' = ~checked
    /\ appShowGutter' = ~checked
    /\ appShowSafety' = ~checked
    /\ canvasEffect([canvasProps EXCEPT !.showBleed = ~checked,
                                        !.showGutter = ~checked,
                                        !.showSafety = ~checked])
    /\ event' = [name |-> "handleTogglePreviewMode", value |-> checked]
    /\ emitted' = << >>
    /\ thrown' = "none"
    /\ UNCHANGED <<selectedFormat, pageCount, isSpread, bindingType, customWidth,
                   customHeight, useCustomSize, bookFormat, catalog, formatRef,
                   showBleed, showGutter, showSafety, showGrid, showRulers, gridSize,
                   elementVars, exportVars, arg, result>>

handleTogglePreviewMode(checked) ==
    /\ previewMode' = checked
    /\ appShowBleed' = (IF checked THEN FALSE ELSE showBleed)
    /\ appShowGutter' = (IF checked THEN FALSE ELSE showGutter)
    /\ appShowSafety' = (IF checked THEN FALSE ELSE showSafety)
    /\ canvasEffect([canvasProps EXCEPT
                        !.showBleed = IF checked THEN FALSE ELSE showBleed,
                        !.showGutter = IF checked THEN FALSE ELSE showGutter,
                        !.showSafety = IF checked THEN FALSE ELSE showSafety])
    /\ event' = [name |-> "handleTogglePreviewMode", value |-> checked]
    /\ emitted' = << >>
    /\ thrown' = "none"
    /\ UNCHANGED <<selectedFormat, pageCount, isSpread, bindingType, customWidth,
                   customHeight, useCustomSize, bookFormat, catalog, formatRef,
                   showBleed, showGutter, showSafety, showGrid, showRulers, gridSize,
                   elementVars, exportVars, arg, result>>

\* CanvasEditor
toggleGrid ==
    /\ showGrid' = ~showGrid
    /\ canvasEffect([canvasProps EXCEPT !.showGrid = ~showGrid])
    /\ UNCHANGED <<selectedFormat, pageCount, isSpread, bindingType, customWidth,
                   customHeight, useCustomSize, bookFormat, emitted, event, thrown,
                   catalog, formatRef, showBleed, showGutter, showSafety, previewMode,
                   appShowBleed, appShowGutter, appShowSafety, showRulers, gridSize,
                   elementVars, exportVars, arg, result>>

toggleRulers ==
    /\ showRulers' = ~showRulers
    /\ canvasEffect([canvasProps EXCEPT !.showRulers = ~showRulers])
    /\ UNCHANGED <<selectedFormat, pageCount, isSpread, bindingType, customWidth,
                   customHeight, useCustomSize, bookFormat, emitted, event, thrown,
                   catalog, formatRef, showBleed, showGutter, showSafety, previewMode,
                   appShowBleed, appShowGutter, appShowSafety, showGrid, gridSize,
                   elementVars, exportVars, arg, result>>

\* onChange of the grid size <select>
setGridSize(size) ==
    /\ gridSize' = size
    /\ canvasEffect([canvasProps EXCEPT !.gridSize = size])
    /\ UNCHANGED <<selectedFormat, pageCount, isSpread, bindingType, customWidth,
                   customHeight, useCustomSize, bookFormat, emitted, event, thrown,
                   catalog, formatRef, showBleed, showGutter, showSafety, previewMode,
                   appShowBleed, appShowGutter, appShowSafety, showGrid, showRulers,
                   elementVars, exportVars, arg, result>>

\* the three guideline checkboxes are disabled while preview mode is on
guidelineCheckboxesEnabled == ~previewMode

NextGuides ==
    \/ (controlsRendered /\ guidelineCheckboxesEnabled /\ handleToggleBleed(~showBleed))
    \/ (controlsRendered /\ guidelineCheckboxesEnabled /\ handleToggleGutter(~showGutter))
    \/ (controlsRendered /\ guidelineCheckboxesEnabled /\ handleToggleSafety(~showSafety))
    \/ (controlsRendered /\ handleTogglePreviewMode(~previewMode))
    \/ toggleGrid
    \/ toggleRulers
    \/ \E size \in GridSizeChoices :
          /\ size # gridSize
          /\ setGridSize(size)
    \/ \E formatId \in GuideFormatIds :
          /\ controlsRendered
          /\ formatSelectEnabled
          /\ formatId # selectedFormat
          /\ handleFormatChange(formatId)
    \/ \E count \in GuidePageCounts :
          /\ controlsRendered
          /\ handlePageCountChange(count)
    \/ (controlsRendered /\ spreadCheckboxEnabled /\ handleToggleSpread(~isSpread))
    \/ \E type \in BindingTypes :
          /\ controlsRendered
          /\ type # bindingType
          /\ handleBindingTypeChange(type)

SpecGuides == Init /\ [][NextGuides]_vars

-----------------------------------------------------------------------------
(* components/ImageUpload/ImageUploader.tsx, App element list, ExportPanel *)

\* names typed into the Placeholder Name field
PlaceholderNames == {"hero"}

\* names of files dropped or selected
FileNames == {"a.png"}

\* canvas.remove of the object at position i of getObjects()
removeObject(i) == SubSeq(objects, 1, i - 1) \o SubSeq(objects, i + 1, Len(objects))

\* App.handleImageAdded: the element appended by setElements(prev => [...prev, element])
handleImageAdded(name, placeholder) ==
    Append(elements,
           [id |-> now,
            type |-> IF placeholder THEN "placeholder" ELSE "image",
            name |-> name,
            isPlaceholder |-> placeholder])

\* Date.now() advances
Tick ==
    /\ now < MaxClock
    /\ now' = now + 1
    /\ UNCHANGED <<objects, nextOid, activeObject, elements, placeholderName,
                   isPlaceholder, pending, controlsVars, guideVars, exportVars,
                   arg, result>>

\* onChange of the Placeholder Name field
setPlaceholderName(name) ==
    /\ placeholderName' = name
    /\ UNCHANGED <<objects, nextOid, activeObject, elements, now, isPlaceholder,
                   pending, controlsVars, guideVars, exportVars,
                   arg, result>>

\* onChange of the 'Mark uploaded image as placeholder' checkbox
setIsPlaceholder(checked) ==
    /\ isPlaceholder' = checked
    /\ UNCHANGED <<objects, nextOid, activeObject, elements, now, placeholderName,
                   pending, controlsVars, guideVars, exportVars,
                   arg, result>>

\* handleFileUpload up to reader.readAsDataURL: the callbacks keep the
\* isPlaceholder and placeholderName of this render, from which imageName
\* is computed
handleFileUpload(file) ==
    /\ Len(pending) < MaxPending
    /\ pending' = Append(pending,
                         [imageName |-> IF isPlaceholder THEN placeholderName ELSE file,
                          isPlaceholder |-> isPlaceholder])
    /\ UNCHANGED <<objects, nextOid, activeObject, elements, now, placeholderName,
                   isPlaceholder, controlsVars, guideVars, exportVars,
                   arg, result>>

\* the fabric.Image.fromURL callback of the i-th load in flight
imageLoaded(i) ==
    LET load == pending[i]
    IN  /\ nextOid <= MaxObjects
        /\ objects' = Append(objects, [type |-> "image", hasData |-> TRUE,
                                       name |-> load.imageName,
                                       isPlaceholder |-> load.isPlaceholder])
        /\ nextOid' = nextOid + 1
        /\ activeObject' = Len(objects) + 1
        /\ elements' = handleImageAdded(load.imageName, load.isPlaceholder)
        /\ templateEffect(bookFormat, TRUE,
                          handleImageAdded(load.imageName, load.isPlaceholder),
                          objects')
        /\ pending' = SubSeq(pending, 1, i - 1) \o SubSeq(pending, i + 1, Len(pending))
        /\ IF load.isPlaceholder
           THEN isPlaceholder' = FALSE /\ placeholderName' = ""
           ELSE UNCHANGED <<isPlaceholder, placeholderName>>
        /\ UNCHANGED <<now, controlsVars, guideVars, templateName, downloads,
                       arg, result>>

handleAddPlaceholder ==
    /\ placeholderName # ""
    /\ nextOid <= MaxObjects
    /\ objects' = Append(objects, [type |-> "group", hasData |-> TRUE,
                                   name |-> placeholderName,
                                   isPlaceholder |-> TRUE])
    /\ nextOid' = nextOid + 1
    /\ activeObject' = Len(objects) + 1
    /\ elements' = handleImageAdded(placeholderName, TRUE)
    /\ templateEffect(bookFormat, TRUE, handleImageAdded(placeholderName, TRUE),
                      objects')
    /\ placeholderName' = ""
    /\ UNCHANGED <<now, isPlaceholder, pending, controlsVars, guideVars,
                   templateName, downloads, arg, result>>

\* (canvas.remove of the active object also discards the selection)
handleDeleteSelected ==
    /\ activeObject # 0
    /\ objects' = removeObject(activeObject)
    /\ activeObject' = 0
    /\ UNCHANGED <<nextOid, elements, now, placeholderName, isPlaceholder, pending,
                   controlsVars, guideVars, exportVars,
                   arg, result>>

\* fabric's clone is not part of the repository: whether the copy carries the
\* data property of the original is left open
handleDuplicate(keepsData) ==
    /\ activeObject # 0
    /\ nextOid <= MaxObjects
    /\ objects' = Append(objects,
                         [objects[activeObject] EXCEPT !.hasData = @ /\ keepsData])
    /\ nextOid' = nextOid + 1
    /\ activeObject' = Len(objects) + 1
    /\ UNCHANGED <<elements, now, placeholderName, isPlaceholder, pending,
                   controlsVars, guideVars, exportVars,
                   arg, result>>

handleBringToFront ==
    /\ activeObject # 0
    /\ objects' = Append(removeObject(activeObject), objects[activeObject])
    /\ activeObject' = Len(objects)
    /\ UNCHANGED <<nextOid, elements, now, placeholderName, isPlaceholder, pending,
                   controlsVars, guideVars, exportVars,
                   arg, result>>

handleSendToBack ==
    /\ activeObject # 0
    /\ objects' = <<objects[activeObject]>> \o removeObject(activeObject)
    /\ activeObject' = 1
    /\ UNCHANGED <<nextOid, elements, now, placeholderName, isPlaceholder, pending,
                   controlsVars, guideVars, exportVars,
                   arg, result>>

\* the user clicks the object at position i of the canvas, or the empty
\* canvas (position 0)
selectObject(i) ==
    /\ i # activeObject
    /\ activeObject' = i
    /\ UNCHANGED <<objects, nextOid, elements, now, placeholderName, isPlaceholder,
                   pending, controlsVars, guideVars, exportVars,
                   arg, result>>

NextElements ==
    \/ Tick
    \/ \E name \in PlaceholderNames \cup {""} :
          /\ name # placeholderName
          /\ setPlaceholderName(name)
    \/ setIsPlaceholder(~isPlaceholder)
    \/ \E file \in FileNames : handleFileUpload(file)
    \/ \E i \in 1..Len(pending) : imageLoaded(i)
    \/ handleAddPlaceholder
    \/ handleDeleteSelected
    \/ \E keepsData \in BOOLEAN : handleDuplicate(keepsData)
    \/ handleBringToFront
    \/ handleSendToBack
    \/ \E i \in 0..Len(objects) : selectObject(i)

SpecElements == Init /\ [][NextElements]_vars

-----------------------------------------------------------------------------
(* Export: components/Export/ExportPanel.tsx and App.handleExport *)

\* onChange of the Template Name field; the JSON preview effect depends on
\* templateName
setTemplateName(name) ==
    /\ templateName' = name
    /\ jsonOutput' = previewEffect(template, name, objects)
    /\ UNCHANGED <<template, downloads, controlsVars, elementVars, guideVars,
                   arg, result>>

\* A click on the export button while it shows 'Export JSON' (exportFormat
\* 'json', its initial value): ExportPanel.handleExport downloads its
\* document and calls onExport, which is App.handleExport and downloads the
\* JSON of App's template.  downloads holds the data of the files, in order.
handleExport ==
    /\ downloads' = << JSONstringify(exportTemplate(template, templateName, objects)),
                       JSONstringify(template) >>
    /\ UNCHANGED <<template, jsonOutput, templateName, controlsVars, elementVars,
                   guideVars, arg, result>>

NextExport ==
    \/ \E name \in PlaceholderNames \cup {""} :
          /\ name # placeholderName
          /\ setPlaceholderName(name)
    \/ handleAddPlaceholder
    \/ \E i \in 0..Len(objects) : selectObject(i)
    \/ handleDeleteSelected
    \/ \E keepsData \in BOOLEAN : handleDuplicate(keepsData)
    \/ handleBringToFront
    \/ handleSendToBack
    \/ \E name \in TemplateNames :
          /\ name # templateName
          /\ setTemplateName(name)
    \/ handleExport
    \/ (controlsRendered /\ spreadCheckboxEnabled /\ handleToggleSpread(~isSpread))
    \/ \E formatId \in GuideFormatIds :
          /\ controlsRendered
          /\ formatSelectEnabled
          /\ formatId # selectedFormat
          /\ handleFormatChange(formatId)

SpecExport == Init /\ [][NextExport]_vars

-----------------------------------------------------------------------------
(* Specification rules: properties *)

\* C1: for every non-negative page count, getGutterWidth is 0 below 60,
\* 0.125 from 60 to 150, 0.5 from 151 to 400, 0.625 from 401 to 600 and
\* 0.75 above 600; the inputs 0, 59, 60, 150, 151, 400, 401, 600, 601, 10000
\* give 0, 0, 0.125, 0.125, 0.5, 0.5, 0.625, 0.625, 0.75, 0.75.
C1_GutterBrackets ==
    (result.fn = "getGutterWidth" /\ arg >= 0) =>
        /\ (arg < 60) => result.val = 0
        /\ (60 <= arg /\ arg <= 150) => result.val = Th(125)
        /\ (151 <= arg /\ arg <= 400) => result.val = Th(500)
        /\ (401 <= arg /\ arg <= 600) => result.val = Th(625)
        /\ (arg > 600) => result.val = Th(750)
        /\ (arg \in {0, 59}) => result.val = 0
        /\ (arg \in {60, 150}) => result.val = Th(125)
        /\ (arg \in {151, 400}) => result.val = Th(500)
        /\ (arg \in {401, 600}) => result.val = Th(625)
        /\ (arg \in {601, 10000}) => result.val = Th(750)

C1_Witness ==
    result.fn = "getGutterWidth" /\ arg = 60 /\ result.val = Th(125)

\* C2: calculateHardcoverSpineWidth is 0 for every page count below 24,
\* 0.25 at 24 and 1.625 at 600.
C2_HardcoverPoints ==
    (result.fn = "calculateHardcoverSpineWidth") =>
        /\ (arg < 24) => result.val = 0
        /\ (arg = 24) => result.val = Th(250)
        /\ (arg = 600) => result.val = Th(1625)

C2_Witness ==
    result.fn = "calculateHardcoverSpineWidth" /\ arg = 24 /\ result.val = Th(250)

\* the step table as the specification lists it: <<upper bound, value>>
HardcoverTable ==
    << <<24, 0>>, <<84, Th(250)>>, <<140, Th(500)>>, <<168, Th(625)>>,
       <<194, Th(688)>>, <<222, Th(750)>>, <<250, Th(813)>>, <<278, Th(875)>>,
       <<306, Th(938)>>, <<334, Th(1000)>>, <<360, Th(1063)>>, <<388, Th(1125)>>,
       <<416, Th(1188)>>, <<444, Th(1250)>>, <<472, Th(1313)>>, <<500, Th(1375)>>,
       <<528, Th(1438)>>, <<556, Th(1500)>>, <<582, Th(1563)>> >>

\* value of the first bracket of the table whose upper bound is >= pc
TableLookup(pc) ==
    LET hits == {i \in 1..Len(HardcoverTable) : HardcoverTable[i][1] >= pc}
    IN  IF hits = {} THEN Th(1625)
        ELSE HardcoverTable[CHOOSE i \in hits : \A j \in hits : i <= j][2]

\* C3 as stated: for every non-negative page count the hardcover spine width
\* is the value of the first bracket whose upper bound is >= the page count.
C3_Original ==
    (result.fn = "calculateHardcoverSpineWidth" /\ arg >= 0) =>
        result.val = TableLookup(arg)

\* C3 as amended: the first bracket is exclusive (page counts below 24 give
\* 0, and 24 itself falls in the 84 bracket); every other bracket is the
\* first whose upper bound is >= the page count, and 1.625 above 582.
C3_HardcoverTable ==
    (result.fn = "calculateHardcoverSpineWidth" /\ arg >= 0) =>
        result.val = (IF arg < 24 THEN 0
                      ELSE IF arg = 24 THEN Th(250)
                      ELSE TableLookup(arg))

C3_Witness ==
    /\ result.fn = "calculateHardcoverSpineWidth"
    /\ arg = 24
    /\ result.val # TableLookup(arg)

\* C4: for every non-negative page count the paperback spine width is
\* pageCount/444 + 0.06 exactly, unclamped; 1.06 at 444 and 0.06 at 0.
C4_PaperbackExact ==
    (result.fn = "calculatePaperbackSpineWidth" /\ arg >= 0) =>
        /\ 444 * (result.val - Th(60)) = arg * Unit
        /\ (arg = 444) => result.val = Th(1060)
        /\ (arg = 0) => result.val = Th(60)

C4_Witness ==
    result.fn = "calculatePaperbackSpineWidth" /\ arg = 444 /\ result.val = Th(1060)

\* C5: calculateHardcoverSpineWidth is non-decreasing in the page count,
\* negative page counts included.
C5_HardcoverMonotone ==
    (result.fn = "calculateHardcoverSpineWidth") =>
        \A q \in RulePageCounts :
            (arg <= q) => result.val <= calculateHardcoverSpineWidth(q)

C5_Witness ==
    /\ result.fn = "calculateHardcoverSpineWidth"
    /\ arg = 222
    /\ result.val < calculateHardcoverSpineWidth(arg + 1)

-----------------------------------------------------------------------------
(* Format resolution in Controls: properties *)

\* C6 as stated: every format handed to onFormatChange whose isSpread is
\* false carries no spineWidth field, whatever binding type is selected.
C6_NoSpineOnSinglePage ==
    \A i \in 1..Len(emitted) :
        (~emitted[i].isSpread) => "spineWidth" \notin DOMAIN emitted[i]

\* C7 as stated: every format handed to onFormatChange has a pageCount field
\* equal to the page count in effect for the event and a gutterWidth equal
\* to getGutterWidth of that page count.
C7_PageCountAndGutter ==
    \A i \in 1..Len(emitted) :
        /\ "pageCount" \in DOMAIN emitted[i]
        /\ emitted[i].pageCount = pageCount
        /\ emitted[i].gutterWidth = getGutterWidth(pageCount)

\* C8: every format handed to onFormatChange whose isSpread is true has a
\* spineWidth equal to the paperback rule at the page count in effect when
\* the binding type in effect is paperback, and to the hardcover rule when
\* it is hardcover.
C8_SpineFollowsBinding ==
    \A i \in 1..Len(emitted) :
        emitted[i].isSpread =>
            /\ "spineWidth" \in DOMAIN emitted[i]
            /\ (bindingType = "paperback") =>
                   emitted[i].spineWidth = calculatePaperbackSpineWidth(pageCount)
            /\ (bindingType = "hardcover") =>
                   emitted[i].spineWidth = calculateHardcoverSpineWidth(pageCount)

C8_Witness ==
    /\ event.name = "handleBindingTypeChange"
    /\ bindingType = "hardcover"
    /\ pageCount = 151
    /\ Len(emitted) = 1
    /\ emitted[1].isSpread
    /\ emitted[1].spineWidth = Th(625)

\* C9 as stated: with custom size active, the format emitted in response to
\* a new custom width w has noBleed.width = w and withBleed.width = w + 0.25,
\* and in response to a new custom height h has noBleed.height = h and
\* withBleed.height = h + 0.25.
C9_CustomSizeEntered ==
    \A i \in 1..Len(emitted) :
        /\ (event.name = "handleCustomWidthChange") =>
               /\ emitted[i].noBleed.width = event.value
               /\ emitted[i].withBleed.width = event.value + Th(250)
        /\ (event.name = "handleCustomHeightChange") =>
               /\ emitted[i].noBleed.height = event.value
               /\ emitted[i].withBleed.height = event.value + Th(250)

\* C10: every format with id 'custom' handed to onFormatChange has
\* withBleed.width = noBleed.width + 0.25 and
\* withBleed.height = noBleed.height + 0.25.
C10_CustomBleed ==
    \A i \in 1..Len(emitted) :
        (emitted[i].id = "custom") =>
            /\ emitted[i].withBleed.width = emitted[i].noBleed.width + Th(250)
            /\ emitted[i].withBleed.height = emitted[i].noBleed.height + Th(250)

C10_Witness ==
    /\ Len(emitted) = 1
    /\ emitted[1].id = "custom"
    /\ emitted[1].noBleed = [width |-> Th(5000), height |-> Th(8000)]
    /\ emitted[1].withBleed = [width |-> Th(5250), height |-> Th(8250)]

-----------------------------------------------------------------------------
(* Catalog and error handling: properties *)

\* C11: after any sequence of Controls events every entry of the BOOK_FORMATS
\* catalog, all fields included, equals its initial value.
C11_CatalogUnchanged == catalog = BOOK_FORMATS

C11_Witness ==
    /\ event.name = "handleToggleSpread"
    /\ formatRef \in FormatIds
    /\ bookFormat = catalog[formatRef]
    /\ catalog = BOOK_FORMATS

\* C12: selecting a format id absent from the catalog raises an error, hands
\* no format (no default either) to onFormatChange, and leaves the catalog
\* and the current format as they were.
C12_UnknownFormatId ==
    [][ (event'.name = "handleFormatChange" /\ event'.value \notin FormatIds) =>
            /\ thrown' # "none"
            /\ emitted' = << >>
            /\ bookFormat' = bookFormat
            /\ catalog' = catalog
            /\ catalog' = BOOK_FORMATS ]_vars

C12_Witness ==
    /\ event.name = "handleFormatChange"
    /\ event.value = "doesNotExist"
    /\ thrown = "TypeError"
    /\ emitted = << >>

\* C13: toggling spread mode on a catalog-based format whose companion entry
\* (id + 'Spread' when switching on, the id with 'Spread' removed when
\* switching off) is not in the catalog emits no format, keeps the current
\* format and keeps the selected format id.
C13_MissingCompanionNoOp ==
    [][ ( /\ event'.name = "handleToggleSpread"
          /\ ~useCustomSize
          /\ IF event'.value
             THEN (selectedFormat \o "Spread") \notin FormatIds
             ELSE withoutSpread(selectedFormat) \notin FormatIds ) =>
            /\ emitted' = << >>
            /\ bookFormat' = bookFormat
            /\ selectedFormat' = selectedFormat ]_vars

C13_Witness ==
    /\ event.name = "handleToggleSpread"
    /\ event.value = TRUE
    /\ ~useCustomSize
    /\ selectedFormat = "pocketbookSpread"
    /\ emitted = << >>

\* C14 as stated: no format with id 'custom' handed to onFormatChange has
\* noBleed.width or noBleed.height outside the printable range 3 to 12 inches.
C14_CustomSizeInRange ==
    \A i \in 1..Len(emitted) :
        (emitted[i].id = "custom") =>
            /\ Th(3000) <= emitted[i].noBleed.width
            /\ emitted[i].noBleed.width <= Th(12000)
            /\ Th(3000) <= emitted[i].noBleed.height
            /\ emitted[i].noBleed.height <= Th(12000)

-----------------------------------------------------------------------------
(* Placement geometry: properties *)

\* rectangle a lies inside rectangle b
Inside(a, b) ==
    /\ a.width >= 0
    /\ a.height >= 0
    /\ a.left >= b.left
    /\ a.top >= b.top
    /\ a.left + a.width <= b.left + b.width
    /\ a.top + a.height <= b.top + b.height

\* the full bled page of the current format, in pixels
Page ==
    [left |-> 0, top |-> 0,
     width |-> bookFormat.withBleed.width * dpi,
     height |-> bookFormat.withBleed.height * dpi]

\* C19 as stated: the trim rectangle drawn is the full bled page inset by
\* 0.125 x dpi on all four sides, the safety rectangle is the trim rectangle
\* inset by a further 0.25 x dpi on all four sides, and so the safety
\* rectangle lies inside the trim rectangle, which lies inside the page.
C19_MarginInsets ==
    LET trim == drawn[1]
        safety == drawn[2]
    IN  /\ trim.left = Page.left + Th(125) * dpi
        /\ trim.top = Page.top + Th(125) * dpi
        /\ trim.width = Page.width - 2 * Th(125) * dpi
        /\ trim.height = Page.height - 2 * Th(125) * dpi
        /\ safety.left = trim.left + Th(250) * dpi
        /\ safety.top = trim.top + Th(250) * dpi
        /\ safety.width = trim.width - 2 * Th(250) * dpi
        /\ safety.height = trim.height - 2 * Th(250) * dpi
        /\ Inside(safety, trim)
        /\ Inside(trim, Page)

\* C20 as stated: for every format the resolver emits, the trim rectangle's
\* width and height are noBleed.width x dpi and noBleed.height x dpi.
C20_TrimIsNoBleed ==
    /\ drawn[1].name = "trim"
    /\ drawn[1].width = bookFormat.noBleed.width * dpi
    /\ drawn[1].height = bookFormat.noBleed.height * dpi

-----------------------------------------------------------------------------
(* Documented gutter areas: properties *)

-----------------------------------------------------------------------------
(* Template elements: properties *)

\* the ids of a sequence of elements are pairwise distinct
DistinctIds(els) ==
    \A i, j \in 1..Len(els) : (i # j) => els[i].id # els[j].id

\* C15 as stated: the elements held by App have pairwise distinct ids, also
\* when two additions read the same clock value, and the elements of an
\* exported document have pairwise distinct ids.
C15_UniqueElementIds ==
    /\ DistinctIds(elements)
    /\ DistinctIds(getElementsFromCanvas(objects))

\* C16 as stated: the number of Template elements always equals the number
\* of placed (non-guideline) objects on the canvas; a deleted object's
\* element is gone.
C16_ElementsMatchObjects ==
    Len(elements) =
        Cardinality({i \in 1..Len(objects) :
                        objects[i].type \notin {"guideline", "grid"}})

-----------------------------------------------------------------------------
(* Guide regions on the canvas: properties *)

\* positions of the objects of the canvas named name
Named(name) == {i \in 1..Len(drawn) : drawn[i].name = name}

\* the geometry of the gutter band, when one is drawn: centred on the page's
\* horizontal midpoint, full height, gutterWidth x dpi wide
GutterBandGeometry ==
    \A i \in Named("gutterArea") :
        /\ drawn[i].width = bookFormat.gutterWidth * dpi
        /\ 2 * drawn[i].left = Page.width - bookFormat.gutterWidth * dpi
        /\ drawn[i].top = 0
        /\ drawn[i].height = Page.height

\* C21 as stated: with gutter display enabled, a gutter band is drawn if and
\* only if the format is a spread, also when gutterWidth is 0; the band is
\* centred on the page's horizontal midpoint, spans the full height and is
\* gutterWidth x dpi wide.
C21_Original ==
    appShowGutter =>
        /\ (Named("gutterArea") # {}) <=> bookFormat.isSpread
        /\ GutterBandGeometry

\* C21 as amended: with gutter display enabled, a gutter band is drawn if and
\* only if the format is a spread whose gutterWidth is greater than 0; the
\* band is centred on the page's horizontal midpoint, spans the full height
\* and is gutterWidth x dpi wide.  For a spread whose gutterWidth is 0 no band
\* is drawn, only the centre line at the midpoint; the centre line is drawn
\* for every spread and for no other format.
C21_GutterBand ==
    appShowGutter =>
        /\ (Named("gutterArea") # {}) <=>
               (bookFormat.isSpread /\ bookFormat.gutterWidth > 0)
        /\ GutterBandGeometry
        /\ (Named("gutter") # {}) <=> bookFormat.isSpread
        /\ \A i \in Named("gutter") :
               /\ 2 * drawn[i].x1 = Page.width
               /\ drawn[i].x2 = drawn[i].x1
               /\ drawn[i].y1 = 0
               /\ drawn[i].y2 = Page.height

C21_Witness ==
    /\ appShowGutter
    /\ bookFormat.isSpread
    /\ bookFormat.gutterWidth = Th(500)
    /\ \E i \in Named("gutterArea") : drawn[i].width = Th(500) * dpi

\* the current format is a spread with a defined spineWidth > 0
HasSpine ==
    /\ bookFormat.isSpread
    /\ "spineWidth" \in DOMAIN bookFormat
    /\ bookFormat.spineWidth > 0

\* the geometry of the spine band, when one is drawn
SpineBandGeometry ==
    \A i \in Named("spine") :
        /\ drawn[i].width = bookFormat.spineWidth * dpi
        /\ 2 * drawn[i].left = Page.width - bookFormat.spineWidth * dpi
        /\ drawn[i].top = 0
        /\ drawn[i].height = Page.height

\* C22 as stated: a spine band is on the canvas exactly when the current
\* format is a spread with a defined spineWidth > 0, whether or not gutter
\* display is enabled and whether or not the gutter band is drawn; it is
\* centred on the page's horizontal midpoint and spineWidth x dpi wide.
C22_Original ==
    /\ (Named("spine") # {}) <=> HasSpine
    /\ SpineBandGeometry

\* C22 as amended: a spine band is on the canvas exactly when gutter display
\* is enabled and the current format is a spread with a defined
\* spineWidth > 0; it is centred on the page's horizontal midpoint and
\* spineWidth x dpi wide, and with gutter display enabled its presence does
\* not depend on whether the gutter band is drawn.
C22_SpineBand ==
    /\ (Named("spine") # {}) <=> (appShowGutter /\ HasSpine)
    /\ SpineBandGeometry

C22_Witness ==
    /\ appShowGutter
    /\ HasSpine
    /\ Named("gutterArea") = {}
    /\ \E i \in Named("spine") : drawn[i].width = Th(60) * dpi

\* C23: after any sequence of format changes and bleed, safety, gutter, grid
\* and ruler toggles the canvas holds at most one trim rectangle, one safety
\* rectangle, one gutter band and one spine band, and holds exactly the
\* objects one drawing of the current format under the current toggles puts
\* on an empty canvas: nothing drawn for an earlier format or for a toggle
\* that is now off remains.
C23_GuidesRecomputed ==
    /\ \A name \in {"trim", "safety", "gutterArea", "spine"} :
           Cardinality(Named(name)) <= 1
    /\ drawn = formatEffect(<< >>, bookFormat, canvasProps)

C23_Witness ==
    /\ bookFormat.id = "pocketbookSpread"
    /\ bookFormat.pageCount = 151
    /\ ~showGrid
    /\ ~appShowSafety
    /\ Named("spine") # {}
    /\ Named("safety") = {}
    /\ \A i \in 1..Len(drawn) : drawn[i].type # "grid"

\* C28: whenever preview mode is on, the bleed, safety and gutter flags the
\* canvas sees are all false; whenever it is off, each of them equals the
\* value of the corresponding checkbox of Controls.
C28_PreviewMode ==
    /\ previewMode => (~appShowBleed /\ ~appShowSafety /\ ~appShowGutter)
    /\ (~previewMode) => /\ appShowBleed = showBleed
                         /\ appShowSafety = showSafety
                         /\ appShowGutter = showGutter

C28_Witness ==
    /\ event.name = "handleTogglePreviewMode"
    /\ event.value = FALSE
    /\ ~previewMode
    /\ ~showBleed
    /\ ~appShowBleed
    /\ showGutter
    /\ appShowGutter

-----------------------------------------------------------------------------
(* Agreement of Controls with the emitted format: properties *)

\* C26 as stated: after any sequence of Controls events the isSpread flag
\* held by Controls equals the isSpread field of the format most recently
\* handed to onFormatChange (the format App holds).
C26_SpreadFlagAgrees == isSpread = bookFormat.isSpread

\* C27 as stated: after any sequence of Controls events useCustomSize is true
\* if and only if the format most recently handed to onFormatChange (the
\* format App holds) has id 'custom'.
C27_CustomModeAgrees == useCustomSize <=> (bookFormat.id = "custom")

-----------------------------------------------------------------------------
(* Template assembly and export: properties *)

\* C24: after any sequence of format changes and element additions, once the
\* template effect has run, the template's format is the current format and
\* its elements are the current element sequence.
C24_TemplateCurrent ==
    /\ template.format = bookFormat
    /\ template.elements = elements

C24_Witness ==
    /\ bookFormat.id = "pocketbookSpread"
    /\ Len(elements) = 2
    /\ template.format.id = "pocketbookSpread"
    /\ Len(template.elements) = 2

\* the canvas objects that carry element data and are not tagged guideline
\* or grid, in canvas order
Carriers ==
    SelectSeq(objects, LAMBDA obj : obj.hasData /\ obj.type \notin {"guideline", "grid"})

C29_PreviewIsExport ==
    jsonOutput = JSONstringify(exportTemplate(template, templateName, objects))

\* C30 as stated: the documents downloaded by one click on Export JSON all
\* carry the template name entered by the user and the elements extracted
\* from the canvas at that moment; no two of them differ in name or elements.
C30_OneExportResult ==
    \A i, j \in 1..Len(downloads) :
        /\ downloads[i].json.name = downloads[j].json.name
        /\ downloads[i].json.elements = downloads[j].json.elements

====
